---- MODULE Spec2Model ----
(***************************************************************************)
(* EduAid (app_v3.py): a Streamlit script that is re-run from top to       *)
(* bottom on every user interaction.  The model keeps the file on disk,    *)
(* the process-wide cache of load_and_preprocess_data, st.session_state,   *)
(* the widget values of the page and what the last script run rendered.    *)
(* Numbers are fixed-point: a float cell holds ten-thousandths, an int     *)
(* cell holds the integer itself.  Strings are TLA+ strings.               *)
(***************************************************************************)
EXTENDS Integers, Sequences, FiniteSets, TLC

VARIABLES
    disk,       \* the file college_scorecard_data.csv: [status, file]
    cache,      \* st.cache_data entry of load_and_preprocess_data (TRUE = present)
    session,    \* st.session_state: [has_df, df, has_sel, selected_schools]
    widgets,    \* widget values the next script run reads
    view,       \* what the last script run rendered and how it ended
    fmt,        \* format_value applied to one cell: [value, metric, result, scaled]
    fetched     \* an enrichment fetcher applied to one response: [fetcher, net, entries, result]

vars == <<disk, cache, session, widgets, view, fmt, fetched>>

(***************************************************************************)
(* Bounds of the model.                                                    *)
(***************************************************************************)
\* fractions 0 .. MaxFracUnits/10000 and their already-scaled forms are formatted
MaxFracUnits == 150
\* the data file holds the first 1 .. NumRows rows of the row pool
NumRows == 5
\* and the first 1 .. NumCompareRows of them where schools are compared
NumCompareRows == 4
\* the wide data file of the selection runs holds NumSchools distinct schools
NumSchools == 6
\* at most MaxChecked metric checkboxes are ticked at a time
MaxChecked == 1
\* entries in one fetched response
MaxEntries == 3

(***************************************************************************)
(* Cell values.                                                            *)
(***************************************************************************)
Scale == 10000

NaN == [t |-> "nan"]
IntV(i) == [t |-> "int", n |-> i]
FloatV(u) == [t |-> "float", n |-> u]
StrV(s) == [t |-> "str", s |-> s]

\* pd.isna(value)
isna(value) == value.t = "nan"

IsNumber(value) == value.t \in {"int", "float"}

Abs(i) == IF i < 0 THEN -i ELSE i

IsNegative(value) == value.n < 0
\* integer part and ten-thousandths of the magnitude of a number
Whole(value) == IF value.t = "int" THEN Abs(value.n) ELSE Abs(value.n) \div Scale
Frac(value) == IF value.t = "int" THEN 0 ELSE Abs(value.n) % Scale

\* value <= 1
LeqOne(value) == IF value.t = "int" THEN value.n <= 1 ELSE value.n <= Scale

\* value * 100, for a value <= 1 (an int stays an int)
Times100(value) == [value EXCEPT !.n = value.n * 100]

\* The cell is a binary fraction with denominator at most 16, so the double
\* holds it (and its product by 100) exactly.
ExactDouble(value) == Frac(value) % 625 = 0

(***************************************************************************)
(* Python number formatting.                                               *)
(***************************************************************************)
Pad3(k) == IF k < 10 THEN "00" \o ToString(k)
           ELSE IF k < 100 THEN "0" \o ToString(k)
           ELSE ToString(k)

\* the ',' option: digits in groups of three
RECURSIVE Grouped(_)
Grouped(k) == IF k < 1000 THEN ToString(k)
              ELSE Grouped(k \div 1000) \o "," \o Pad3(k % 1000)

SignOf(value) == IF IsNegative(value) THEN "-" ELSE ""

\* A double prints correctly rounded: an exact half goes to the even neighbour;
\* a decimal half whose double is inexact lies just above or just below the
\* midpoint, and `up` says which.
\* the magnitude rounded to an integer (a half is always exact in a double)
Round0(value) ==
    LET w == Whole(value)
        f == Frac(value)
    IN  IF 2 * f < Scale THEN w
        ELSE IF 2 * f > Scale THEN w + 1
        ELSE IF w % 2 = 0 THEN w ELSE w + 1

\* f"{value:,.0f}"
FormatGrouped0(value) == SignOf(value) \o Grouped(Round0(value))

\* f"{value:.0f}"
FormatFixed0(value) == SignOf(value) \o ToString(Round0(value))

\* f"{value*100:.2f}": the product of a cell of four decimals has two
FormatTimes100Fixed2(value) ==
    LET cents == IF value.t = "int" THEN 0 ELSE Abs(value.n) % 100
        w == IF value.t = "int" THEN Abs(value.n) * 100 ELSE Abs(value.n) \div 100
    IN  SignOf(value) \o ToString(w) \o "."
        \o (IF cents < 10 THEN "0" ELSE "") \o ToString(cents)

\* The halves of small magnitude whose double lies above the midpoint, so that
\* '.1f' rounds them away from zero: k hundredths (k % 10 = 5, k < 300) read
\* as the double k/100, and k ten-thousandths read as the product k/10000 * 100.
DirectHalvesUp == {5, 45, 55, 65, 105, 135, 155, 185, 235, 245, 285, 295}
ProductHalvesUp == {5, 35, 65, 75, 85, 105, 135, 145, 155, 165, 175, 205, 235, 245, 275, 285}

\* the direction '.1f' rounds the half `value`; `up` decides past the tables
DirectHalfUp(value, up) ==
    IF value.t = "float" /\ Abs(value.n) % 100 = 0 /\ Abs(value.n) < 30000
    THEN (Abs(value.n) \div 100) \in DirectHalvesUp
    ELSE up

\* the direction '.1f' rounds the half value * 100
ProductHalfUp(value, up) ==
    IF value.t = "float" /\ Abs(value.n) < 300
    THEN Abs(value.n) \in ProductHalvesUp
    ELSE up

\* f"{value:.1f}", `exact` telling whether the double holds the value exactly
FormatFixed1(value, exact, up) ==
    LET w == Whole(value)
        f == Frac(value)
        t == f \div 1000
        r == f % 1000
        tenths == w * 10 + t
        q == IF 2 * r < 1000 THEN tenths
             ELSE IF 2 * r > 1000 THEN tenths + 1
             ELSE IF exact THEN (IF tenths % 2 = 0 THEN tenths ELSE tenths + 1)
             ELSE IF up THEN tenths + 1 ELSE tenths
    IN  SignOf(value) \o ToString(q \div 10) \o "." \o ToString(q % 10)

\* f"{int(value):,}": int() truncates towards zero
FormatInt(value) ==
    LET w == Whole(value)
    IN  (IF IsNegative(value) /\ w > 0 THEN "-" ELSE "") \o Grouped(w)

\* the digits of a fraction of ten-thousandths, trailing zeros dropped
FracDigits(f) ==
    IF f % 1000 = 0 THEN ToString(f \div 1000)
    ELSE IF f % 100 = 0 THEN (IF f < 1000 THEN "0" ELSE "") \o ToString(f \div 100)
    ELSE IF f % 10 = 0 THEN (IF f < 100 THEN "00" ELSE IF f < 1000 THEN "0" ELSE "")
                            \o ToString(f \div 10)
    ELSE (IF f < 10 THEN "000" ELSE IF f < 100 THEN "00" ELSE IF f < 1000 THEN "0" ELSE "")
         \o ToString(f)

\* str(value)
PyStr(value) ==
    IF value.t = "str" THEN value.s
    ELSE IF value.t = "int" THEN ToString(value.n)
    ELSE SignOf(value) \o ToString(Whole(value)) \o "." \o FracDigits(Frac(value))

Returned(s) == [raised |-> FALSE, text |-> s]
Raised(e) == [raised |-> TRUE, text |-> e]

(***************************************************************************)
(* The metric catalog (available_metrics) and format_value.                *)
(***************************************************************************)
M(key, label) == [key |-> key, label |-> label]

CategoryNames == <<"Cost & Financial", "Academic Performance",
                   "Student Demographics", "Post-Graduation">>

available_metrics ==
    [c \in {CategoryNames[i] : i \in 1..Len(CategoryNames)} |->
        CASE c = "Cost & Financial" ->
               << M("in_state_tuition", "In-State Tuition ($)"),
                  M("out_of_state_tuition", "Out-of-State Tuition ($)"),
                  M("attendance_cost", "Total Cost of Attendance ($)"),
                  M("net_price_public", "Net Price - Public ($)"),
                  M("net_price_private", "Net Price - Private ($)"),
                  M("median_debt", "Median Student Debt ($)"),
                  M("pell_grant_rate", "Non-Loan Aid Rate (%)") >>
          [] c = "Academic Performance" ->
               << M("completion_rate", "Graduation Rate (%)"),
                  M("admission_rate", "Admission Rate (%)"),
                  M("sat_average", "Average SAT Score") >>
          [] c = "Student Demographics" ->
               << M("student_size", "Total Enrollment"),
                  M("first_generation", "First Generation Students (%)"),
                  M("age_entry", "Average Age at Entry"),
                  M("median_family_income", "Median Family Income ($)"),
                  M("percent_white", "White Students (%)"),
                  M("percent_black", "Black Students (%)"),
                  M("percent_hispanic", "Hispanic Students (%)"),
                  M("percent_asian", "Asian Students (%)"),
                  M("percent_non_white", "Non-White Students (%)"),
                  M("locale", "Campus Location") >>
          [] OTHER ->
               << M("median_earnings_10yrs", "Median Earnings after 10 years ($)") >>]

Categories == DOMAIN available_metrics

MetricKeys(c) == [i \in 1..Len(available_metrics[c]) |-> available_metrics[c][i].key]

CatalogKeys == UNION {{MetricKeys(c)[i] : i \in 1..Len(MetricKeys(c))} : c \in Categories}

CurrencyMetrics == {"in_state_tuition", "out_of_state_tuition", "attendance_cost",
                    "net_price_public", "net_price_private", "median_debt",
                    "median_family_income", "median_earnings_10yrs"}

PercentMetrics == {"completion_rate", "admission_rate", "first_generation",
                   "pell_grant_rate", "percent_white", "percent_black",
                   "percent_hispanic", "percent_asian", "percent_non_white"}

IntegerMetrics == {"student_size", "sat_average"}

LocaleCodes == {11, 12, 13, 21, 22, 23, 31, 32, 33, 41, 42, 43}

locale_map ==
    [c \in LocaleCodes |->
        CASE c = 11 -> "City: Large" [] c = 12 -> "City: Midsize" [] c = 13 -> "City: Small"
          [] c = 21 -> "Suburb: Large" [] c = 22 -> "Suburb: Midsize" [] c = 23 -> "Suburb: Small"
          [] c = 31 -> "Town: Fringe" [] c = 32 -> "Town: Distant" [] c = 33 -> "Town: Remote"
          [] c = 41 -> "Rural: Fringe" [] c = 42 -> "Rural: Distant" [] c = 43 -> "Rural: Remote"]

\* LocaleLookup_IntOnly: a lookup that a float cell never matches
LocaleLookup_IntOnly(value) ==
    IF value.t = "int" /\ value.n \in LocaleCodes THEN locale_map[value.n] ELSE "Unknown"

\* locale_map.get(value, 'Unknown'): 31 and 31.0 hash and compare alike
LocaleLookup(value) ==
    IF IsNumber(value) /\ ~IsNegative(value) /\ Frac(value) = 0
       /\ Whole(value) \in LocaleCodes
    THEN locale_map[Whole(value)]
    ELSE "Unknown"

\* FormatPercent_Below1: the branch taken on value < 1
FormatPercent_Below1(value, up) ==
    IF LeqOne(value) /\ value # IntV(1) /\ value # FloatV(Scale)
    THEN FormatFixed1(Times100(value), ExactDouble(value), ProductHalfUp(value, up)) \o "%"
    ELSE FormatFixed1(value, ExactDouble(value), DirectHalfUp(value, up)) \o "%"

\* f"{value*100:.1f}%" if value <= 1 else f"{value:.1f}%"
FormatPercent(value, up) ==
    IF LeqOne(value)
    THEN FormatFixed1(Times100(value), ExactDouble(value), ProductHalfUp(value, up)) \o "%"
    ELSE FormatFixed1(value, ExactDouble(value), DirectHalfUp(value, up)) \o "%"

\* format_value(value, metric); `up` resolves the rounding of an inexact half
format_value(value, metric, up) ==
    IF isna(value) THEN Returned("N/A")
    ELSE IF metric \in CurrencyMetrics THEN
        IF IsNumber(value) THEN Returned("$" \o FormatGrouped0(value))
        ELSE Raised("ValueError")
    ELSE IF metric \in PercentMetrics THEN
        IF IsNumber(value) THEN Returned(FormatPercent(value, up))
        ELSE Raised("TypeError")
    ELSE IF metric \in IntegerMetrics THEN
        IF IsNumber(value) THEN Returned(FormatInt(value))
        ELSE Raised("ValueError")
    ELSE IF metric = "age_entry" THEN
        IF IsNumber(value) THEN Returned(FormatFixed1(value, ExactDouble(value), DirectHalfUp(value, up)) \o " years")
        ELSE Raised("ValueError")
    ELSE IF metric = "locale" THEN Returned(LocaleLookup(value))
    ELSE Returned(PyStr(value))

(***************************************************************************)
(* The data file and the pandas operations the script uses on it.          *)
(***************************************************************************)
None == [t |-> "none"]

\* a string cell that keeps apart the 'http://' or 'https://' it starts with
UrlV(scheme, rest) == [t |-> "str", s |-> scheme \o rest, scheme |-> scheme]

UrlColumns == {"school_url", "price_calculator_url"}

AllColumns == {"school_name", "city", "state"} \cup UrlColumns \cup CatalogKeys

Doubled(value) == IF IsNumber(value) THEN [value EXCEPT !.n = 2 * value.n] ELSE value

MkRow(name, city, state, url, npc, money, pct, count, age, loc) ==
    [col \in AllColumns |->
        CASE col = "school_name" -> name
          [] col = "city" -> city
          [] col = "state" -> state
          [] col = "school_url" -> url
          [] col = "price_calculator_url" -> npc
          [] col = "out_of_state_tuition" -> Doubled(money)
          [] col \in CurrencyMetrics \ {"out_of_state_tuition"} -> money
          [] col \in PercentMetrics -> pct
          [] col \in IntegerMetrics -> count
          [] col = "age_entry" -> age
          [] OTHER -> loc]

\* a school like no other in the pool
GenericRow(i) ==
    MkRow(StrV("School " \o ToString(i)), StrV("Fresno"), StrV("CA"),
          UrlV("", "www.school.edu"), UrlV("https://", "school.edu/npc"),
          IntV(1000 * i), FloatV(100 * i), IntV(100 * i), FloatV(200000), IntV(21))

RowPool(i) ==
    CASE i = 1 -> MkRow(StrV("Acme U"), StrV("Berkeley"), StrV("CA"),
                        UrlV("", "www.acme.edu"), UrlV("https://", "acme.edu/npc"),
                        IntV(10000), FloatV(7500), IntV(1200), FloatV(195000), IntV(31))
      [] i = 2 -> MkRow(StrV("Beta College"), StrV("Fresno"), StrV("CA"),
                        NaN, UrlV("", "beta.edu/npc"),
                        IntV(20000), FloatV(5000), FloatV(12345000), FloatV(221500), IntV(99))
      [] i = 3 -> MkRow(StrV("Acme U"), StrV("Davis"), StrV("CA"),
                        UrlV("", "acme-davis.edu"), UrlV("", "acme-davis.edu/npc"),
                        FloatV(154995000), IntV(1), IntV(950), FloatV(180000), FloatV(120000))
      [] i = 4 -> MkRow(NaN, StrV("Chico"), StrV("CA"),
                        UrlV("", "www.chico.edu"), UrlV("", "chico.edu/npc"),
                        StrV("PrivacySuppressed"), StrV("PrivacySuppressed"),
                        StrV("PrivacySuppressed"), StrV("PrivacySuppressed"), StrV("rural"))
      [] i = 5 -> MkRow(StrV("Gamma Tech"), StrV("Albany"), StrV("NY"),
                        UrlV("http://", "gamma.edu"), NaN,
                        NaN, FloatV(420000), StrV("PrivacySuppressed"), NaN, NaN)
      [] OTHER -> GenericRow(i)

\* a table: the column names and the rows in file order
Frame(columns, rows) == [columns |-> columns, rows |-> rows]

PoolTable(k, columns) ==
    Frame(columns, [i \in 1..k |-> [col \in columns |-> RowPool(i)[col]]])

WideTable(n) == Frame(AllColumns, [i \in 1..n |-> GenericRow(i)])

\* the file on disk: which rows it holds and whether it has the URL columns
PoolFile(k, urls) == [pool |-> "pool", rows |-> k, urls |-> urls]
WideFile(n) == [pool |-> "wide", rows |-> n, urls |-> TRUE]

FileTable(file) ==
    IF file.pool = "wide" THEN WideTable(file.rows)
    ELSE PoolTable(file.rows, IF file.urls THEN AllColumns ELSE AllColumns \ UrlColumns)

\* df.empty
IsEmptyFrame(df) == Len(df.rows) = 0

\* a == b on cells: a missing value equals nothing, itself included
CellEq(a, b) == ~isna(a) /\ ~isna(b) /\ a = b

Range(seq) == {seq[i] : i \in 1..Len(seq)}

\* Series.unique(): first occurrences, in order (one NaN if any)
RECURSIVE Unique(_)
Unique(seq) ==
    IF seq = <<>> THEN <<>>
    ELSE LET init == Unique(SubSeq(seq, 1, Len(seq) - 1))
             last == seq[Len(seq)]
         IN  IF last \in Range(init) THEN init ELSE Append(init, last)

Column(df, col) == [i \in 1..Len(df.rows) |-> df.rows[i][col]]

\* df['school_name'].unique(): the options of the school widgets
SchoolOptions(df) == Unique(Column(df, "school_name"))

\* df[df['school_name'] == school_name]
RowsNamed(df, school_name) ==
    SelectSeq(df.rows, LAMBDA r : CellEq(r["school_name"], school_name))

\* RowsIn_SelectionOrder: the rows looked up name by name, in the order selected
RECURSIVE RowsIn_SelectionOrder(_, _)
RowsIn_SelectionOrder(df, names) ==
    IF names = <<>> THEN <<>>
    ELSE SelectSeq(df.rows, LAMBDA r : r["school_name"] = Head(names))
         \o RowsIn_SelectionOrder(df, Tail(names))

\* df[df['school_name'].isin(names)]: isin matches a missing value with a missing value
RowsIn(df, names) ==
    SelectSeq(df.rows, LAMBDA r : r["school_name"] \in Range(names))

\* truth value of a cell or widget value
Truthy(value) == value # None /\ value # StrV("") /\ value # IntV(0) /\ value # FloatV(0)

(***************************************************************************)
(* What a script run renders.                                              *)
(***************************************************************************)
Tasks == <<"Find Net Price Calculator", "Research School Financial Aid",
           "Compare Schools", "Contact Financial Aid Office", "Scholarship Search">>

NoTable == [columns |-> <<>>, rows |-> <<>>]
NoExport == [format |-> "", header |-> <<>>, rows |-> <<>>]

\* what a run found: the file's status, a cached table, a table in the session
NoRun == [file |-> "", cache_hit |-> FALSE, had_df |-> FALSE]

\* a run that rendered `elements` and ended `status`
\* ("complete", "stopped" by st.stop(), or "exception" when one went uncaught)
Page(status, error, elements) ==
    [status |-> status, error |-> error, elements |-> elements,
     display |-> NoTable, charts |-> <<>>, export |-> NoExport, similar |-> <<>>,
     saw |-> NoRun]

Chrome == <<"title", "task_selector">>

DefaultWidgets ==
    [task |-> Tasks[1], school |-> None, search_query |-> "", school4 |-> None,
     category |-> CategoryNames[1], checked |-> {}, download_format |-> "CSV"]

\* widgets a run did not render lose their values
KeepOnly(w, fields) == [f \in DOMAIN w |-> IF f \in fields THEN w[f] ELSE DefaultWidgets[f]]

\* s.startswith(('http://', 'https://')), of a string cell
HasScheme(value) == "scheme" \in DOMAIN value /\ value.scheme \in {"http://", "https://"}

\* 'https://' + url
WithHttps(value) == UrlV("https://", value.s)

(***************************************************************************)
(* Task 1: Find Net Price Calculator                                       *)
(***************************************************************************)
NetPriceCalculator(df, w) ==
    LET head == Chrome \o <<"header:Find Net Price Calculator", "selectbox:school">>
    IN  IF ~Truthy(w.school) THEN Page("complete", "", head)
        ELSE LET found == RowsNamed(df, w.school)
             IN  IF found = <<>> THEN Page("exception", "IndexError", head)
                 ELSE LET npc_url == IF "price_calculator_url" \in df.columns
                                     THEN found[1]["price_calculator_url"]
                                     ELSE StrV("")
                      IN  IF ~Truthy(npc_url)
                          THEN Page("complete", "", Append(head, "info:No Net Price Calculator link"))
                          ELSE IF npc_url.t # "str"
                          THEN Page("exception", "AttributeError", head)
                          ELSE Page("complete", "",
                                    head \o <<"success:Visit the Net Price Calculator",
                                              "link:" \o (IF HasScheme(npc_url) THEN npc_url.s
                                                          ELSE WithHttps(npc_url).s)>>)

(***************************************************************************)
(* Task 2: Research School Financial Aid                                   *)
(***************************************************************************)
\* display_metric: what it shows, or the exception it lets through
display_metric(df, selected_school, label, value_key, is_percentage, is_currency) ==
    IF value_key \notin df.columns THEN Returned("info:" \o label \o ": Data not available")
    ELSE LET value == selected_school[value_key]
         IN  IF isna(value) THEN Returned("info:" \o label \o ": Data not available")
             ELSE IF ~IsNumber(value) THEN Raised("ValueError")
             ELSE Returned("metric:" \o label \o "="
                           \o (IF is_percentage THEN FormatTimes100Fixed2(value) \o "%"
                               ELSE IF is_currency THEN "$" \o FormatGrouped0(value)
                               ELSE FormatFixed0(value)))

\* elements shown until one raises; the run goes on in the outer handler
RECURSIVE ShownUntilRaise(_)
ShownUntilRaise(results) ==
    IF results = <<>> THEN <<>>
    ELSE IF Head(results).raised
    THEN <<"error:Financial Aid Information not available", "exception:" \o Head(results).text>>
    ELSE <<Head(results).text>> \o ShownUntilRaise(Tail(results))

ResearchFinancialAid(df, w) ==
    LET head == Chrome \o <<"header:Research School Financial Aid", "selectbox:school">>
    IN  IF ~Truthy(w.school) THEN Page("complete", "", head)
        ELSE LET school_data == RowsNamed(df, w.school)
             IN  IF school_data = <<>>
                 THEN Page("stopped", "", Append(head, "info:Selected school data not found."))
                 ELSE LET r == school_data[1]
                      IN  Page("complete", "", head \o ShownUntilRaise(
                            << display_metric(df, r, "In-State Tuition", "in_state_tuition", FALSE, TRUE),
                               display_metric(df, r, "Out-of-State Tuition", "out_of_state_tuition", FALSE, TRUE),
                               display_metric(df, r, "Median Debt", "median_debt", FALSE, TRUE),
                               display_metric(df, r, "Completion Rate", "completion_rate", TRUE, FALSE),
                               display_metric(df, r, "Admission Rate", "admission_rate", TRUE, FALSE),
                               display_metric(df, r, "Average SAT Score", "sat_average", FALSE, FALSE) >>))

(***************************************************************************)
(* Task 4: Contact Financial Aid Office                                    *)
(***************************************************************************)
\* the characters of the strings that are searched or searched for
Chars(s) ==
    CASE s = "" -> <<>>
      [] s = "Acme U" -> <<"A", "c", "m", "e", " ", "U">>
      [] s = "Beta College" -> <<"B", "e", "t", "a", " ", "C", "o", "l", "l", "e", "g", "e">>
      [] s = "Gamma Tech" -> <<"G", "a", "m", "m", "a", " ", "T", "e", "c", "h">>
      [] s = "acme" -> <<"a", "c", "m", "e">>
      [] s = "COLLEGE" -> <<"C", "O", "L", "L", "E", "G", "E">>
      [] s = "e" -> <<"e">>
      [] s = "zzz" -> <<"z", "z", "z">>
      [] s = "(" -> <<"(">>
      [] OTHER -> <<"S", "c", "h", "o", "o", "l", " ", "#">>

Queries == {"", "acme", "COLLEGE", "e", "zzz", "("}

LowerChar(c) ==
    CASE c = "A" -> "a" [] c = "B" -> "b" [] c = "C" -> "c" [] c = "E" -> "e"
      [] c = "G" -> "g" [] c = "L" -> "l" [] c = "O" -> "o" [] c = "S" -> "s"
      [] c = "T" -> "t" [] c = "U" -> "u" [] OTHER -> c

Lower(chars) == [i \in 1..Len(chars) |-> LowerChar(chars[i])]

\* re.compile(pat) succeeds
ValidPattern(pat) == "(" \notin Range(Chars(pat))

\* Series.str.contains(pat, case=False, na=False) on one cell
str_contains(cell, pat) ==
    /\ cell.t = "str"
    /\ LET t == Lower(Chars(cell.s))
           q == Lower(Chars(pat))
       IN  \E i \in 0..(Len(t) - Len(q)) : SubSeq(t, i + 1, i + Len(q)) = q

\* filtered_df: the rows whose name matches the query, or the whole table
FilteredFrame(df, search_query) ==
    IF search_query # ""
    THEN Frame(df.columns,
               SelectSeq(df.rows, LAMBDA r : str_contains(r["school_name"], search_query)))
    ELSE df

\* the options of the Task 4 selectbox
ContactOptions(df, filtered_df) ==
    IF IsEmptyFrame(filtered_df) THEN SchoolOptions(df) ELSE SchoolOptions(filtered_df)

\* the value of a selectbox over `options`: the user's choice, or the first option
SelectboxValue(options, choice) == IF choice \in Range(options) THEN choice ELSE options[1]

ContactFinancialAid(df, w) ==
    LET head == Chrome \o <<"header:Contact Financial Aid Office", "text_input:search">>
    IN  IF w.search_query # "" /\ ~ValidPattern(w.search_query)
        THEN Page("exception", "re.error", head)
        ELSE
        LET filtered_df == FilteredFrame(df, w.search_query)
            shown == head \o (IF IsEmptyFrame(filtered_df)
                              THEN <<"warning:No schools found", "selectbox:school">>
                              ELSE <<"selectbox:school">>)
            school_name == SelectboxValue(ContactOptions(df, filtered_df), w.school4)
            school_data == RowsNamed(filtered_df, school_name)
        IN  IF school_data = <<>>
            THEN Page("stopped", "", Append(shown, "error:Selected school data not found."))
            ELSE LET school_url == IF "school_url" \in df.columns
                                   THEN school_data[1]["school_url"]
                                   ELSE StrV("Not Available")
                 IN  IF ~Truthy(school_url) \/ school_url = StrV("Not Available")
                     THEN Page("complete", "", Append(shown, "info:No website information available"))
                     ELSE IF school_url.t # "str"
                     THEN Page("exception", "AttributeError", shown)
                     ELSE Page("complete", "",
                               shown \o <<"info:For more information",
                                          "link:" \o (IF HasScheme(school_url) THEN school_url.s
                                                      ELSE WithHttps(school_url).s)>>)

\* the widgets of Task 4 after the run: the selectbox shows the school it returned
ContactWidgets(df, w) ==
    LET kept == KeepOnly(w, {"task", "search_query", "school4"})
    IN  IF w.search_query # "" /\ ~ValidPattern(w.search_query)
        THEN [kept EXCEPT !.school4 = None]
        ELSE [kept EXCEPT !.school4 =
                SelectboxValue(ContactOptions(df, FilteredFrame(df, w.search_query)), w.school4)]

(***************************************************************************)
(* Task 5: Scholarship Search                                              *)
(***************************************************************************)
ScholarshipSearch ==
    Page("complete", "", Chrome \o <<"header:Scholarship Search", "resources">>)

(***************************************************************************)
(* Task 3: Compare Schools                                                 *)
(***************************************************************************)
MaxSelections == 5
SampleK == 3

Min(a, b) == IF a <= b THEN a ELSE b

\* the ticked metrics of the category, in catalog order
selected_metrics(w) == SelectSeq(MetricKeys(w.category), LAMBDA m : m \in w.checked)

MetricLabel(category, metric) ==
    (CHOOSE e \in Range(available_metrics[category]) : e.key = metric).label

\* the first failure of the formatting loop: a metric the table has no column
\* for, or a cell format_value raises on; "" when the loop completes
RECURSIVE FormatError(_, _, _, _)
FormatError(columns, rows, metrics, up) ==
    IF metrics = <<>> THEN ""
    ELSE LET metric == Head(metrics)
             bad == IF metric \in columns
                    THEN SelectSeq(rows, LAMBDA r : format_value(r[metric], metric, up).raised)
                    ELSE <<>>
         IN  IF metric \notin columns THEN "KeyError"
             ELSE IF bad # <<>> THEN format_value(bad[1][metric], metric, up).text
             ELSE FormatError(columns, rows, Tail(metrics), up)

\* comparison_df[metric] = comparison_df[metric].apply(format_value), every metric
FormatColumns(rows, metrics, up) ==
    [i \in 1..Len(rows) |->
        [col \in DOMAIN rows[i] |->
            IF col \in Range(metrics) /\ ~format_value(rows[i][col], col, up).raised
            THEN StrV(format_value(rows[i][col], col, up).text)
            ELSE rows[i][col]]]

\* st.session_state.df once the columns of comparison_df are formatted
\* StoredFrame_InPlace: the formatting is applied to the session table itself
StoredFrame_InPlace(df, metrics, up) ==
    Frame(df.columns, FormatColumns(df.rows, SelectSeq(metrics, LAMBDA m : m \in df.columns), up))

\* comparison_df is a .copy(): the session table keeps its raw cells
StoredFrame(df, metrics, up) == df

\* frame[cols] as rows of cells
Project(rows, cols) == [i \in 1..Len(rows) |-> [j \in 1..Len(cols) |-> rows[i][cols[j]]]]

\* display_df: comparison_df[['school_name'] + selected_metrics] under its labels
display_df(comparison_rows, category, metrics) ==
    [columns |-> <<"School Name">> \o [j \in 1..Len(metrics) |-> MetricLabel(category, metrics[j])],
     rows |-> Project(comparison_rows, <<"school_name">> \o metrics)]

\* one px.bar per metric over numeric_df
Charts(numeric_rows, category, metrics) ==
    [j \in 1..Len(metrics) |->
        [title |-> MetricLabel(category, metrics[j]),
         x |-> [i \in 1..Len(numeric_rows) |-> numeric_rows[i]["school_name"]],
         y |-> [i \in 1..Len(numeric_rows) |-> numeric_rows[i][metrics[j]]]]]

\* a cell as to_csv / to_excel write it: a missing value is an empty field
FieldText(cell) == IF isna(cell) THEN "" ELSE PyStr(cell)

\* comparison_df[['school_name'] + selected_metrics].to_csv(index=False) / .to_excel
Exported(format, comparison_rows, metrics) ==
    [format |-> format,
     header |-> <<"school_name">> \o metrics,
     rows |-> LET cells == Project(comparison_rows, <<"school_name">> \o metrics)
              IN  [i \in 1..Len(cells) |-> [j \in 1..Len(cells[i]) |-> FieldText(cells[i][j])]]]

\* the rows .sample() draws from
\* similar_pool_AnyState: the pool without the filter on the state
similar_pool_AnyState(df, selected) ==
    SelectSeq(df.rows, LAMBDA r : r["school_name"] \notin Range(selected))

similar_pool(df, selected) ==
    LET states == {r["state"] : r \in Range(RowsIn(df, selected))}
    IN  SelectSeq(df.rows, LAMBDA r : r["state"] \in states
                                     /\ r["school_name"] \notin Range(selected))

\* n of .sample(n=...)
SampleSize(df) == Min(SampleK, Len(df.rows))

\* DataFrame.sample(n): every draw of n rows without replacement, in any order;
\* no draw at all (ValueError) when n exceeds the number of rows
Samples(pool, n) ==
    {[i \in 1..n |-> pool[f[i]]] :
        f \in {g \in [1..n -> 1..Len(pool)] : \A i, j \in 1..n : i # j => g[i] # g[j]}}

SimilarLine(r) == [school_name |-> r["school_name"], city |-> r["city"], state |-> r["state"]]

\* st.multiselect(..., max_selections=5) after the user picks one more option
\* multiselect_add_unbounded: the widget without max_selections
multiselect_add_unbounded(current, option) == Append(current, option)

multiselect_add(current, option) ==
    IF Len(current) >= MaxSelections THEN current ELSE Append(current, option)

\* the same widget after the user removes an option
multiselect_remove(current, option) == SelectSeq(current, LAMBDA v : v # option)

Outcome(c, s, w, page, rerun) ==
    [cache |-> c, session |-> s, widgets |-> w, page |-> page, rerun |-> rerun]

\* HasSelection_NotNone: the test written as `is not None`
HasSelection_NotNone(selected_schools) == selected_schools # None

\* if st.session_state.selected_schools:
HasSelection(selected_schools) == selected_schools # <<>>

\* `ms` is the value of the multiselect, `clear` whether the button was pressed
CompareSchools(c, s, w, ms, clear) ==
    LET df == s.df
        head == Chrome \o <<"header:Compare Schools", "multiselect:schools",
                            "button:Clear Selection">>
        s1 == [s EXCEPT !.has_sel = TRUE, !.selected_schools = ms]
        picker == head \o <<"selectbox:category", "checkboxes:metrics">>
        metrics == selected_metrics(w)
        kept == KeepOnly(w, {"task", "category", "checked", "download_format"})
    IN  IF clear
        THEN {Outcome(c, [s1 EXCEPT !.selected_schools = <<>>], w, Page("rerun", "", head), TRUE)}
        ELSE IF ~HasSelection(s1.selected_schools)
        THEN {Outcome(c, s1, KeepOnly(w, {"task"}),
                      Page("complete", "",
                           head \o <<"info:Start by selecting schools", "sidebar:resources">>),
                      FALSE)}
        ELSE IF metrics = <<>>
        THEN {Outcome(c, s1, KeepOnly(w, {"task", "category", "checked"}),
                      Page("complete", "", Append(picker, "sidebar:resources")), FALSE)}
        ELSE UNION {
            LET rows == RowsIn(df, ms)
                err == FormatError(df.columns, rows, metrics, up)
                comparison_rows == FormatColumns(rows, metrics, up)
                stored == StoredFrame(df, metrics, up)
                s2 == [s1 EXCEPT !.df = stored]
                numeric_rows == RowsIn(stored, ms)
                shown == [Page("complete", "",
                               picker \o <<"table", "charts", "download", "similar",
                                           "sidebar:resources">>)
                            EXCEPT !.display = display_df(comparison_rows, w.category, metrics),
                                   !.charts = Charts(numeric_rows, w.category, metrics),
                                   !.export = Exported(w.download_format, comparison_rows, metrics)]
                draws == Samples(similar_pool(stored, ms), SampleSize(stored))
            IN  IF err # ""
                THEN {Outcome(c, s1, KeepOnly(w, {"task", "category", "checked"}),
                              Page("exception", err, picker), FALSE)}
                ELSE IF draws = {}
                THEN {Outcome(c, s2, kept,
                              [shown EXCEPT !.status = "exception", !.error = "ValueError",
                                            !.elements = picker \o <<"table", "charts", "download",
                                                                     "subheader:Similar Schools">>],
                              FALSE)}
                ELSE {Outcome(c, s2, kept,
                              [shown EXCEPT !.similar = [i \in 1..Len(d) |-> SimilarLine(d[i])]],
                              FALSE) : d \in draws}
            : up \in BOOLEAN}

(***************************************************************************)
(* One run of the script, top to bottom.                                   *)
(***************************************************************************)
DiskStatuses == {"ok", "empty", "missing", "unreadable"}

\* what pd.read_csv gives for a file holding `table`: the table, its header
\* alone when the file has no rows, or a raise
ReadResult(status, table) ==
    [raised |-> status \in {"missing", "unreadable"},
     error |-> IF status = "missing" THEN "FileNotFoundError" ELSE "PermissionError",
     frame |-> IF status = "ok" THEN table ELSE Frame(table.columns, <<>>)]

read_csv(d) == ReadResult(d.status, FileTable(d.file))

\* load_and_preprocess_data() has to stop the run: nothing cached and the file
\* missing, unreadable or without rows (csv is what read_csv gives)
\* LoadStops_NoEmptyCheck: the loader without its df.empty test
LoadStops_NoEmptyCheck(csv, c) == ~c /\ csv.raised

LoadStops(csv, c) == ~c /\ (csv.raised \/ IsEmptyFrame(csv.frame))

NoFrame == Frame({}, <<>>)

FreshSession == [has_df |-> FALSE, df |-> NoFrame, has_sel |-> FALSE, selected_schools |-> <<>>]

\* the script from line 41 on, csv being what a read of the file gives
RunFrom(csv, d, c, s, w, ms, clear) ==
    IF LoadStops(csv, c)
    THEN {Outcome(FALSE, s, DefaultWidgets,
                  Page("stopped", "", <<"error:Data loading failed">>), FALSE)}
    ELSE IF ~s.has_df /\ csv.raised
    THEN {Outcome(TRUE, s, DefaultWidgets,
                  IF d.status = "missing"
                  THEN Page("stopped", "", <<"error:Could not find the college data file">>)
                  ELSE Page("exception", csv.error, <<>>),
                  FALSE)}
    ELSE LET s1 == IF s.has_df THEN s
                   ELSE [s EXCEPT !.has_df = TRUE, !.df = csv.frame]
         IN  IF IsEmptyFrame(s1.df)
             THEN {Outcome(TRUE, s1, DefaultWidgets,
                           Page("stopped", "", <<"error:The college data file is empty.">>),
                           FALSE)}
             ELSE IF w.task = Tasks[1]
             THEN {Outcome(TRUE, s1, KeepOnly(w, {"task", "school"}),
                           NetPriceCalculator(s1.df, w), FALSE)}
             ELSE IF w.task = Tasks[2]
             THEN {Outcome(TRUE, s1, KeepOnly(w, {"task", "school"}),
                           ResearchFinancialAid(s1.df, w), FALSE)}
             ELSE IF w.task = Tasks[3]
             THEN CompareSchools(TRUE, s1, w, ms, clear)
             ELSE IF w.task = Tasks[4]
             THEN {Outcome(TRUE, s1, ContactWidgets(s1.df, w),
                           ContactFinancialAid(s1.df, w), FALSE)}
             ELSE {Outcome(TRUE, s1, KeepOnly(w, {"task"}), ScholarshipSearch, FALSE)}

RunOnce(d, c, s, w, ms, clear) == RunFrom(read_csv(d), d, c, s, w, ms, clear)

\* a run, and the run st.rerun() starts in its place
ScriptRuns(d, c, s, w, ms, clear) ==
    LET saw == [file |-> d.status, cache_hit |-> c, had_df |-> s.has_df]
    IN  UNION {IF o.rerun
               THEN {[o2 EXCEPT !.page.saw = saw] :
                        o2 \in RunOnce(d, o.cache, o.session, o.widgets,
                                       o.session.selected_schools, FALSE)}
               ELSE {[o EXCEPT !.page.saw = saw]} : o \in RunOnce(d, c, s, w, ms, clear)}

(***************************************************************************)
(* The table load_and_preprocess_data returns (lines 10-35). The headers   *)
(* of the modelled files are lowercase words joined by single underscores, *)
(* which the normalisation of lines 16-22 leaves as they are; the rename   *)
(* table of lines 25-29 is applied to them.                                *)
(***************************************************************************)
column_mapping ==
    [unitid |-> "unit_id",
     price_calculator_url |-> "net_price_calculator_url",
     median_earnings_10yrs |-> "median_earnings_10yr"]

\* df.rename(columns=column_mapping): the name a column has afterwards
rename(column) == IF column \in DOMAIN column_mapping THEN column_mapping[column] ELSE column

\* the frame the loader returns for the frame read_csv gave
load_and_preprocess_data(frame) ==
    Frame({rename(col) : col \in frame.columns},
          [i \in 1..Len(frame.rows) |->
              [new \in {rename(col) : col \in frame.columns} |->
                  frame.rows[i][CHOOSE col \in frame.columns : rename(col) = new]]])

\* the keys format_value names in its kind lists (lines 355-371)
FormatKindKeys == CurrencyMetrics \cup PercentMetrics \cup IntegerMetrics \cup {"locale", "age_entry"}

(***************************************************************************)
(* The enrichment fetchers (lines 44-109).                                 *)
(***************************************************************************)
\* the names the module binds: its imports (lines 1-7)
Imports == {"st", "pd", "np", "px", "requests", "datetime", "io"}

Fetchers == {"fetch_unigo_reviews", "fetch_collegewise_reviews", "fetch_campus_events"}

\* what requests.get meets
Nets == {"ok", "unreachable", "timeout"}

\* an entry of the response (a review card, an event item): well formed,
\* lacking a sub-element (the author or the title), lacking the data-
\* attribute the code indexes, or carrying one float() rejects
EntryKinds == {"ok", "no_sub", "no_attr", "bad_num"}

Entry(id, kind) == [id |-> id, kind |-> kind]

RecordOf(id, author) == [entry |-> id, author |-> author]

\* the dict literal built for one card of a review page
review_data(card) ==
    IF card.kind = "no_attr" THEN Raised("KeyError")
    ELSE IF card.kind = "bad_num" THEN Raised("ValueError")
    ELSE [raised |-> FALSE,
          record |-> RecordOf(card.id, IF card.kind = "no_sub" THEN "Anonymous" ELSE "author")]

\* the dict literal built for one item of an events page
event_data(item) ==
    IF item.kind = "no_sub" THEN Raised("AttributeError")
    ELSE IF item.kind = "no_attr" THEN Raised("KeyError")
    ELSE IF item.kind = "bad_num" THEN Raised("ValueError")
    ELSE [raised |-> FALSE, record |-> RecordOf(item.id, "title")]

ParseEntry(fetcher, entry) ==
    IF fetcher = "fetch_campus_events" THEN event_data(entry) ELSE review_data(entry)

\* what a fetcher returns: a frame of records, with the st.error it showed
Fetched(records, error) == [raised |-> FALSE, records |-> records, error |-> error]

\* the for loop: the first entry that raises ends the try block
RECURSIVE ParseLoop(_, _, _)
ParseLoop(fetcher, entries, done) ==
    IF entries = <<>> THEN Fetched(done, "")
    ELSE LET parsed == ParseEntry(fetcher, Head(entries))
         IN  IF parsed.raised THEN Fetched(<<>>, parsed.text)
             ELSE ParseLoop(fetcher, Tail(entries), Append(done, parsed.record))

\* the global names a fetcher looks up before and after requests.get
NamesBeforeGet(fetcher) == IF fetcher = "fetch_collegewise_reviews" THEN {"re", "requests"} ELSE {"requests"}
NamesAfterGet == {"BeautifulSoup"}

\* try: ... except Exception: st.error(...); return pd.DataFrame()
FetchBody(fetcher, net, entries) ==
    IF ~(NamesBeforeGet(fetcher) \subseteq Imports) THEN Fetched(<<>>, "NameError")
    ELSE IF net = "unreachable" THEN Fetched(<<>>, "ConnectionError")
    ELSE IF net = "timeout" THEN Fetched(<<>>, "Timeout")
    ELSE IF ~(NamesAfterGet \subseteq Imports) THEN Fetched(<<>>, "NameError")
    ELSE ParseLoop(fetcher, entries, <<>>)

fetch_unigo_reviews(net, entries) == FetchBody("fetch_unigo_reviews", net, entries)
fetch_collegewise_reviews(net, entries) == FetchBody("fetch_collegewise_reviews", net, entries)
fetch_campus_events(net, entries) == FetchBody("fetch_campus_events", net, entries)

FetchIdle == [fetcher |-> "", net |-> "", entries |-> <<>>, result |-> None]

(***************************************************************************)
(* The state machine: the environment and the user's interactions, each    *)
(* followed by the script run it triggers.                                 *)
(***************************************************************************)
FormatIdle == [value |-> None, metric |-> "", result |-> None, scaled |-> None]

Rendered(e) == e \in Range(view.elements)

\* the run an interaction triggers, and the state it leaves
Runs(w, ms, clear) ==
    \E o \in ScriptRuns(disk, cache, session, w, ms, clear) :
        /\ cache' = o.cache
        /\ session' = o.session
        /\ widgets' = o.widgets
        /\ view' = o.page
        /\ UNCHANGED <<disk, fmt, fetched>>

\* the file is replaced, removed or made unreadable
DiskChange(status) ==
    /\ status # disk.status
    /\ disk' = [disk EXCEPT !.status = status]
    /\ UNCHANGED <<cache, session, widgets, view, fmt, fetched>>

\* ttl=24*3600 runs out
CacheExpire ==
    /\ cache
    /\ cache' = FALSE
    /\ UNCHANGED <<disk, session, widgets, view, fmt, fetched>>

\* a browser opens the app: a new session_state and a first run
NewSession ==
    \E o \in ScriptRuns(disk, cache, FreshSession, DefaultWidgets, <<>>, FALSE) :
        /\ cache' = o.cache
        /\ session' = o.session
        /\ widgets' = o.widgets
        /\ view' = o.page
        /\ UNCHANGED <<disk, fmt, fetched>>

\* the user asks for a rerun
Rerun == Runs(widgets, session.selected_schools, FALSE)

SelectTask(t) ==
    /\ Rendered("task_selector")
    /\ t # widgets.task
    /\ Runs([widgets EXCEPT !.task = t], session.selected_schools, FALSE)

\* the selectbox of Task 1 and Task 2: a school, or cleared
PickSchool(v) ==
    /\ Rendered("selectbox:school")
    /\ widgets.task \in {Tasks[1], Tasks[2]}
    /\ v \in Range(SchoolOptions(session.df)) \cup {None}
    /\ v # widgets.school
    /\ Runs([widgets EXCEPT !.school = v], session.selected_schools, FALSE)

Search(q) ==
    /\ Rendered("text_input:search")
    /\ q # widgets.search_query
    /\ Runs([widgets EXCEPT !.search_query = q], session.selected_schools, FALSE)

PickContact(v) ==
    /\ Rendered("selectbox:school")
    /\ widgets.task = Tasks[4]
    /\ v \in Range(ContactOptions(session.df, FilteredFrame(session.df, widgets.search_query)))
    /\ v # widgets.school4
    /\ Runs([widgets EXCEPT !.school4 = v], session.selected_schools, FALSE)

MultiSelectAdd(v) ==
    /\ Rendered("multiselect:schools")
    /\ v \in Range(SchoolOptions(session.df)) \ Range(session.selected_schools)
    /\ Runs(widgets, multiselect_add(session.selected_schools, v), FALSE)

MultiSelectRemove(v) ==
    /\ Rendered("multiselect:schools")
    /\ v \in Range(session.selected_schools)
    /\ Runs(widgets, multiselect_remove(session.selected_schools, v), FALSE)

ClearSelection ==
    /\ Rendered("button:Clear Selection")
    /\ Runs(widgets, session.selected_schools, TRUE)

ChooseCategory(c) ==
    /\ Rendered("selectbox:category")
    /\ c # widgets.category
    /\ Runs([widgets EXCEPT !.category = c, !.checked = {}], session.selected_schools, FALSE)

ToggleMetric(m) ==
    /\ Rendered("checkboxes:metrics")
    /\ m \in Range(MetricKeys(widgets.category))
    /\ m \in widgets.checked \/ Cardinality(widgets.checked) < MaxChecked
    /\ Runs([widgets EXCEPT !.checked = IF m \in @ THEN @ \ {m} ELSE @ \cup {m}],
            session.selected_schools, FALSE)

ChooseDownload(f) ==
    /\ Rendered("download")
    /\ f # widgets.download_format
    /\ Runs([widgets EXCEPT !.download_format = f], session.selected_schools, FALSE)

(***************************************************************************)
(* Spec: sessions over a file that may change, and the lookups of Tasks    *)
(* 1, 2 and 4.                                                             *)
(***************************************************************************)
FirstRun(d) ==
    \E o \in ScriptRuns(d, FALSE, FreshSession, DefaultWidgets, <<>>, FALSE) :
        /\ disk = d
        /\ cache = o.cache
        /\ session = o.session
        /\ widgets = o.widgets
        /\ view = o.page
        /\ fmt = FormatIdle
        /\ fetched = FetchIdle

Init == \E status \in DiskStatuses, k \in 1..NumRows, urls \in BOOLEAN :
            FirstRun([status |-> status, file |-> PoolFile(k, urls)])

Next ==
    \/ \E status \in DiskStatuses : DiskChange(status)
    \/ CacheExpire
    \/ NewSession
    \/ Rerun
    \/ \E t \in Range(Tasks) : SelectTask(t)
    \/ \E v \in Range(SchoolOptions(session.df)) \cup {None} : PickSchool(v)
    \/ \E q \in Queries : Search(q)
    \/ \E v \in Range(SchoolOptions(session.df)) : PickContact(v)

Spec == Init /\ [][Next]_vars

(***************************************************************************)
(* SpecCompare: one session over a readable file, comparing schools.       *)
(***************************************************************************)
InitCompare == \E k \in 1..NumCompareRows : FirstRun([status |-> "ok", file |-> PoolFile(k, TRUE)])

NextCompare ==
    \/ \E t \in Range(Tasks) : SelectTask(t)
    \/ \E v \in Range(SchoolOptions(session.df)) : MultiSelectAdd(v)
    \/ \E v \in Range(SchoolOptions(session.df)) : MultiSelectRemove(v)
    \/ ClearSelection
    \/ \E c \in Categories : ChooseCategory(c)
    \/ \E m \in CatalogKeys : ToggleMetric(m)
    \/ \E f \in {"CSV", "Excel"} : ChooseDownload(f)

SpecCompare == InitCompare /\ [][NextCompare]_vars

(***************************************************************************)
(* SpecSimilar: one session over the file of all NumRows schools, which    *)
(* lie in more than one state, up to the suggestion of similar schools.    *)
(***************************************************************************)
InitSimilar == FirstRun([status |-> "ok", file |-> PoolFile(NumRows, TRUE)])

NextSimilar ==
    \/ SelectTask(Tasks[3])
    \/ \E v \in Range(SchoolOptions(session.df)) : MultiSelectAdd(v)
    \/ \E v \in Range(SchoolOptions(session.df)) : MultiSelectRemove(v)
    \/ ClearSelection
    \/ \E m \in {"in_state_tuition", "median_debt"} : ToggleMetric(m)

SpecSimilar == InitSimilar /\ [][NextSimilar]_vars

(***************************************************************************)
(* SpecSelect: one session over a file of NumSchools distinct schools,     *)
(* selecting schools to compare.                                           *)
(***************************************************************************)
InitSelect == FirstRun([status |-> "ok", file |-> WideFile(NumSchools)])

NextSelect ==
    \/ \E t \in Range(Tasks) : SelectTask(t)
    \/ \E v \in Range(SchoolOptions(session.df)) : MultiSelectAdd(v)
    \/ \E v \in Range(SchoolOptions(session.df)) : MultiSelectRemove(v)
    \/ ClearSelection

SpecSelect == InitSelect /\ [][NextSelect]_vars

(***************************************************************************)
(* SpecFormat: format_value applied to one cell of one metric column, and  *)
(* to the already-scaled form of a percentage stored as a fraction.        *)
(***************************************************************************)
FormatValues ==
    {NaN, StrV("PrivacySuppressed")}
    \cup {IntV(i) : i \in LocaleCodes \cup {-5, 0, 1, 42, 99, 1000, 1234567}}
    \cup {FloatV(k) : k \in 0..MaxFracUnits}
    \cup {FloatV(100 * k) : k \in 0..MaxFracUnits}
    \cup {FloatV(u) : u \in {-4000, 625, 4200, 5000, 7500, 10000, 15000, 25000, 62500,
                              195500, 310000, 420000, 990000, 12345678}}

FormatMetrics == CatalogKeys \cup {"city"}

InitFormat ==
    /\ disk = [status |-> "missing", file |-> PoolFile(1, TRUE)]
    /\ cache = FALSE
    /\ session = FreshSession
    /\ widgets = DefaultWidgets
    /\ view = Page("", "", <<>>)
    /\ fmt \in [value : FormatValues, metric : FormatMetrics, result : {None}, scaled : {None}]
    /\ fetched = FetchIdle

FormatCell ==
    /\ fmt.result = None
    /\ \E up \in BOOLEAN :
          fmt' = [fmt EXCEPT !.result = format_value(fmt.value, fmt.metric, up)]
    /\ UNCHANGED <<disk, cache, session, widgets, view, fetched>>

\* the value is a fraction in [0, 1] whose percentage exceeds 1
HasScaledForm(value) ==
    /\ IsNumber(value)
    /\ ~IsNegative(value)
    /\ LeqOne(value)
    /\ ~LeqOne(Times100(value))

FormatScaledForm ==
    /\ fmt.result # None
    /\ fmt.scaled = None
    /\ fmt.metric \in PercentMetrics
    /\ HasScaledForm(fmt.value)
    /\ \E up \in BOOLEAN :
          fmt' = [fmt EXCEPT !.scaled = format_value(Times100(fmt.value), fmt.metric, up)]
    /\ UNCHANGED <<disk, cache, session, widgets, view, fetched>>

NextFormat == FormatCell \/ FormatScaledForm

SpecFormat == InitFormat /\ [][NextFormat]_vars

(***************************************************************************)
(* SpecFetch: one fetcher applied to one response.                         *)
(***************************************************************************)
\* the responses: up to MaxEntries entries, numbered in page order
Responses ==
    UNION {{[i \in 1..n |-> Entry(i, kinds[i])] : kinds \in [1..n -> EntryKinds]} : n \in 0..MaxEntries}

InitFetch ==
    /\ disk = [status |-> "missing", file |-> PoolFile(1, TRUE)]
    /\ cache = FALSE
    /\ session = FreshSession
    /\ widgets = DefaultWidgets
    /\ view = Page("", "", <<>>)
    /\ fmt = FormatIdle
    /\ fetched \in [fetcher : Fetchers, net : Nets, entries : Responses, result : {None}]

FetchCall ==
    /\ fetched.result = None
    /\ fetched' = [fetched EXCEPT !.result =
                      CASE fetched.fetcher = "fetch_unigo_reviews" ->
                               fetch_unigo_reviews(fetched.net, fetched.entries)
                        [] fetched.fetcher = "fetch_collegewise_reviews" ->
                               fetch_collegewise_reviews(fetched.net, fetched.entries)
                        [] OTHER -> fetch_campus_events(fetched.net, fetched.entries)]
    /\ UNCHANGED <<disk, cache, session, widgets, view, fmt>>

NextFetch == FetchCall

SpecFetch == InitFetch /\ [][NextFetch]_vars

(***************************************************************************)
(* Properties.                                                             *)
(***************************************************************************)
Selection == session.selected_schools

\* a run that stopped before anything of the page was drawn
HaltedAtLoad == view.status \in {"stopped", "exception"} /\ ~Rendered("title")

\* C1 -- In Compare mode, with a non-empty selection and a metric chosen, the
\* sampler never raises and lists exactly min(3, pool size) schools, the pool
\* being the unselected schools that share a state with a selected one.
C1_SamplerNeverRaises ==
    (widgets.task = Tasks[3] /\ Rendered("table")) =>
        /\ view.status = "complete"
        /\ Len(view.similar) = Min(3, Len(similar_pool(session.df, Selection)))

NumericKindMetrics == CurrencyMetrics \cup PercentMetrics \cup IntegerMetrics \cup {"age_entry"}

\* C2 -- format_value is total: it returns a string for every kind and cell,
\* "N/A" for a missing cell and "N/A" for a non-numeric cell of a numeric kind.
C2_FormatterTotal ==
    fmt.result # None =>
        /\ ~fmt.result.raised
        /\ isna(fmt.value) => fmt.result.text = "N/A"
        /\ (fmt.value.t = "str" /\ fmt.metric \in NumericKindMetrics) => fmt.result.text = "N/A"

\* C3 -- Only a dataset-load failure halts a run: every run that got past the
\* load completes, whatever the mode and the input.
C3_OnlyLoadFailureHalts ==
    view.status \in {"stopped", "exception"} => HaltedAtLoad

\* the exported text read back: its header line and its fields
ParsedCsv(export) == [columns |-> export.header, rows |-> export.rows]

DisplayedText(table) ==
    [i \in 1..Len(table.rows) |->
        [j \in 1..Len(table.rows[i]) |-> FieldText(table.rows[i][j])]]

\* C4 -- The CSV export read back gives the header labels and the cell strings
\* of the displayed comparison table, one row per displayed school.
C4_CsvExportRoundTrip ==
    (Rendered("download") /\ view.export.format = "CSV") =>
        /\ ParsedCsv(view.export).columns = view.display.columns
        /\ ParsedCsv(view.export).rows = DisplayedText(view.display)

\* C5 -- The comparison table has as many rows as there are selected schools,
\* never more than 5, and one column more than there are selected metrics.
C5_TableShape ==
    Rendered("table") =>
        /\ Len(view.display.rows) = Len(Selection)
        /\ Len(view.display.rows) <= 5
        /\ Len(view.display.columns) = Cardinality(widgets.checked) + 1

SelectionWithinLimit ==
    /\ Len(Selection) <= 5
    /\ \A i, j \in 1..Len(Selection) : i # j => Selection[i] # Selection[j]
    /\ session.has_df => Range(Selection) \subseteq Range(SchoolOptions(session.df))

\* a step that changes a selection of five leaves fewer than five
FullSelectionOnlyShrinks ==
    (Len(Selection) = 5 /\ session'.selected_schools # Selection)
        => Len(session'.selected_schools) < 5

\* C6 -- After any sequence of add, remove and Clear Selection interactions the
\* stored selection holds at most 5 distinct school names, and adding to a
\* selection of 5 leaves it unchanged.
C6_SelectionAtMostFive == [](SelectionWithinLimit) /\ [][FullSelectionOnlyShrinks]_vars

C6_Witness_FiveSelected == Len(Selection) = 5 /\ Rendered("multiselect:schools")

\* C7 -- No interaction writes to the loaded table: the session table is the
\* table read at session start, and each chart plots the raw cells of the
\* selected schools while the display table shows the formatted strings.
C7_DatasetNeverWritten ==
    session.has_df =>
        /\ session.df = FileTable(disk.file)
        /\ Rendered("charts") =>
              LET raw == RowsIn(FileTable(disk.file), Selection)
                  metrics == selected_metrics(widgets)
              IN  /\ Len(view.charts) = Len(metrics)
                  /\ \A j \in 1..Len(metrics) :
                        /\ view.charts[j].y = [i \in 1..Len(raw) |-> raw[i][metrics[j]]]
                        /\ \A i \in 1..Len(raw) : view.display.rows[i][j + 1].t = "str"

C7_Witness_FormattedAndPlotted ==
    /\ Rendered("charts")
    /\ \E j \in 1..Len(view.charts) : \E i \in 1..Len(view.charts[j].y) :
          /\ IsNumber(view.charts[j].y[i])
          /\ view.display.rows[i][j + 1] # view.charts[j].y[i]

\* a number of tenths written with one decimal place
OneDecimal(tenths) == ToString(tenths \div 10) \o "." \o ToString(tenths % 10)

\* the ten-thousandths of |value| past its integer part, after the scaling
\* the percent rule applies: 100 * value when value <= 1, value otherwise
ShownWhole(value) ==
    IF LeqOne(value) THEN (Whole(value) * Scale + Frac(value)) \div 100 ELSE Whole(value)
ShownFrac(value) ==
    IF LeqOne(value) THEN ((Whole(value) * Scale + Frac(value)) % 100) * 100 ELSE Frac(value)

\* the shown number lies exactly halfway between two adjacent tenths
HalfwayTenth(value) == ShownFrac(value) % 1000 = 500

TenthsBelow(value) == ShownWhole(value) * 10 + ShownFrac(value) \div 1000

NearestTenth(value) ==
    IF ShownFrac(value) % 1000 > 500 THEN TenthsBelow(value) + 1 ELSE TenthsBelow(value)

\* C8 (as stated) -- a fraction f in [0,1] and its already-scaled form 100*f
\* (when 100*f > 1) always produce the same percent string.
C8_ScaledFormSameString ==
    (fmt.result # None /\ fmt.scaled # None) => fmt.scaled = fmt.result

\* C8 -- Percent formatting branches on magnitude: a numeric cell v shows
\* 100*v when v <= 1 and v when v > 1, to one decimal place with a trailing
\* '%'; a fraction and its already-scaled form give the same string unless
\* the percentage lies exactly halfway between two tenths; 0.42 and 42 both
\* give "42.0%".
C8_PercentByMagnitude ==
    (fmt.metric \in PercentMetrics /\ IsNumber(fmt.value) /\ fmt.result # None) =>
        /\ ~fmt.result.raised
        /\ IF HalfwayTenth(fmt.value)
           THEN fmt.result.text \in
                    {SignOf(fmt.value) \o OneDecimal(TenthsBelow(fmt.value) + d) \o "%" : d \in {0, 1}}
           ELSE fmt.result.text = SignOf(fmt.value) \o OneDecimal(NearestTenth(fmt.value)) \o "%"
        /\ fmt.value \in {FloatV(4200), IntV(42), FloatV(420000)} => fmt.result.text = "42.0%"
        /\ (fmt.scaled # None /\ ~HalfwayTenth(fmt.value)) => fmt.scaled = fmt.result

C8_Witness_FractionAndScaled ==
    /\ fmt.metric = "completion_rate"
    /\ fmt.value = FloatV(4200)
    /\ fmt.result = Returned("42.0%")
    /\ fmt.scaled = Returned("42.0%")

\* the label of a known locale code, from its two digits
ExpectedLocaleLabel(code) ==
    LET area == code \div 10
        size == code % 10
    IN  (CASE area = 1 -> "City" [] area = 2 -> "Suburb" [] area = 3 -> "Town" [] OTHER -> "Rural")
        \o ": " \o
        (IF area <= 2
         THEN (CASE size = 1 -> "Large" [] size = 2 -> "Midsize" [] OTHER -> "Small")
         ELSE (CASE size = 1 -> "Fringe" [] size = 2 -> "Distant" [] OTHER -> "Remote"))

\* the cell holds one of the twelve codes, as an int or as a whole float
KnownLocale(value) ==
    /\ IsNumber(value)
    /\ ~IsNegative(value)
    /\ Frac(value) = 0
    /\ Whole(value) \in {11, 12, 13, 21, 22, 23, 31, 32, 33, 41, 42, 43}

\* C9 (as stated) -- every input that is not one of the twelve codes, a missing
\* code included, is shown as "Unknown".
C9_MissingLocaleUnknown ==
    (fmt.metric = "locale" /\ fmt.result # None /\ ~KnownLocale(fmt.value))
        => fmt.result = Returned("Unknown")

\* C9 -- Locale formatting maps each of the twelve codes to its fixed label
\* (31 gives "Town: Fringe"), every other present value to "Unknown", and a
\* missing code to "N/A".
C9_LocaleLabels ==
    (fmt.metric = "locale" /\ fmt.result # None) =>
        /\ ~fmt.result.raised
        /\ fmt.result.text = IF isna(fmt.value) THEN "N/A"
                             ELSE IF KnownLocale(fmt.value)
                             THEN ExpectedLocaleLabel(Whole(fmt.value))
                             ELSE "Unknown"
        /\ fmt.value \in {IntV(31), FloatV(310000)} => fmt.result.text = "Town: Fringe"
        /\ fmt.value = IntV(99) => fmt.result.text = "Unknown"

C9_Witness_KnownCode ==
    /\ fmt.metric = "locale"
    /\ fmt.value = FloatV(310000)
    /\ fmt.result = Returned("Town: Fringe")

\* C10 (as stated) -- in any run where the file is missing, unreadable or
\* without rows, the run halts before the title is rendered.
C10_BadFileHaltsEveryRun ==
    view.saw.file \in {"missing", "unreadable", "empty"} => HaltedAtLoad

\* C10 -- A dataset-load failure is terminal with no partial rendering: a run
\* that has to read the file (nothing cached, or no table in the session yet)
\* while the file is missing, unreadable or without rows halts with an error
\* and renders neither the title, the task selector nor a mode; and no mode
\* ever renders against an empty table.
C10_LoadFailureTerminal ==
    /\ (/\ view.saw.file \in {"missing", "unreadable", "empty"}
        /\ ~view.saw.cache_hit \/ ~view.saw.had_df)
          => /\ HaltedAtLoad
             /\ Len(view.elements) <= 1
             /\ view.status = "stopped" => Len(view.elements) = 1
             /\ view.status = "exception" => view.error # ""
    /\ Rendered("title") => (session.has_df /\ ~IsEmptyFrame(session.df))

C10_Witness_HaltedOnMissingFile ==
    /\ view.saw.file = "missing"
    /\ view.saw.had_df
    /\ ~view.saw.cache_hit
    /\ view.status = "stopped"
    /\ view.elements = <<"error:Data loading failed">>

\* the records of the well-formed entries of a response, in page order
WellFormedRecords(fetcher, entries) ==
    [i \in 1..Len(SelectSeq(entries, LAMBDA e : e.kind = "ok")) |->
        RecordOf(SelectSeq(entries, LAMBDA e : e.kind = "ok")[i].id,
                 IF fetcher = "fetch_campus_events" THEN "title" ELSE "author")]

\* C11 -- Each enrichment fetcher never raises past its boundary; on a
\* reachable host it returns the records of the well-formed entries of the
\* response, the malformed entries skipped; on a network or timeout failure it
\* returns an empty result.
C11_FetcherKeepsWellFormed ==
    fetched.result # None =>
        /\ ~fetched.result.raised
        /\ fetched.net # "ok" => fetched.result.records = <<>>
        /\ fetched.net = "ok" =>
               fetched.result.records = WellFormedRecords(fetched.fetcher, fetched.entries)

\* the URL cell the lookup of a mode reads: the first row carrying the name
UrlCellOf(rows, school_name, column) ==
    IF column \in session.df.columns
    THEN SelectSeq(rows, LAMBDA r : CellEq(r["school_name"], school_name))[1][column]
    ELSE NaN

\* what the page has to hold for a URL cell: the link, 'https://' put before a
\* URL that starts with neither scheme, or the no-link message in a completed run
UrlShownAsStated(cell, message) ==
    IF isna(cell) \/ cell = StrV("")
    THEN /\ view.status = "complete"
         /\ Rendered(message)
         /\ \A i \in 1..Len(session.df.rows), c \in UrlColumns \cap session.df.columns :
               session.df.rows[i][c].t = "str" =>
                   /\ ~Rendered("link:" \o session.df.rows[i][c].s)
                   /\ ~Rendered("link:https://" \o session.df.rows[i][c].s)
    ELSE /\ view.status = "complete"
         /\ Rendered("link:" \o (IF cell.scheme \in {"http://", "https://"} THEN cell.s
                                  ELSE "https://" \o cell.s))

\* C12 -- In the net-price and contact lookups, for every selected school that
\* has a row, a URL lacking an http:// or https:// prefix is shown with
\* 'https://' prepended, a URL with a scheme is shown unchanged, and a missing
\* or empty URL yields the no-link / no-website message, not a link or a failure.
C12_UrlNormalized ==
    /\ (/\ Rendered("header:Find Net Price Calculator")
        /\ widgets.school # None
        /\ RowsNamed(session.df, widgets.school) # <<>>)
          => UrlShownAsStated(UrlCellOf(session.df.rows, widgets.school, "price_calculator_url"),
                              "info:No Net Price Calculator link")
    /\ (/\ Rendered("header:Contact Financial Aid Office")
        /\ Rendered("selectbox:school")
        /\ RowsNamed(FilteredFrame(session.df, widgets.search_query), widgets.school4) # <<>>)
          => UrlShownAsStated(UrlCellOf(FilteredFrame(session.df, widgets.search_query).rows,
                                        widgets.school4, "school_url"),
                              "info:No website information available")

\* C13 -- Every school the Similar-Schools Sampler returns is not in the
\* current selection and lies in the state of at least one selected school.
C13_SimilarOutsideSelectionSameState ==
    \A i \in 1..Len(view.similar) :
        /\ view.similar[i].school_name \notin Range(Selection)
        /\ \E j \in 1..Len(session.df.rows) :
              /\ session.df.rows[j]["school_name"] \in Range(Selection)
              /\ session.df.rows[j]["state"] = view.similar[i].state

\* three schools were suggested while the table also holds an unselected
\* school of another state
C13_Witness_ThreeSuggested ==
    /\ Len(view.similar) = 3
    /\ view.status = "complete"
    /\ \E j \in 1..Len(session.df.rows) :
          /\ session.df.rows[j]["school_name"] \notin Range(Selection)
          /\ \A i \in 1..Len(view.similar) : view.similar[i].state # session.df.rows[j]["state"]

\* what Compare mode renders past the selection: the metric picker, the table,
\* the charts, the download and the similar schools
CompareSteps ==
    {"selectbox:category", "checkboxes:metrics", "table", "charts", "download",
     "subheader:Similar Schools", "similar"}

\* Compare mode with an empty selection completes on the prompt alone; with a
\* non-empty one it shows the metric picker and no prompt
EmptySelectionShowsPrompt ==
    Rendered("header:Compare Schools") =>
        /\ Selection = <<>> =>
              /\ view.status = "complete"
              /\ Rendered("info:Start by selecting schools")
              /\ Range(view.elements) \cap CompareSteps = {}
              /\ view.display = NoTable
              /\ view.charts = <<>>
              /\ view.export = NoExport
              /\ view.similar = <<>>
        /\ Selection # <<>> =>
              /\ ~Rendered("info:Start by selecting schools")
              /\ Rendered("checkboxes:metrics")

\* a step that empties the selection in Compare mode ends on the prompt
EmptyingLeadsToPrompt ==
    (Selection # <<>> /\ Selection' = <<>> /\ widgets'.task = Tasks[3])
        => (view'.status = "complete"
            /\ "info:Start by selecting schools" \in Range(view'.elements))

\* C14 -- Zero selected schools is a valid, non-error state: whenever Compare
\* mode runs with an empty selection (at session start or at the render
\* following Clear Selection) it completes showing the awaiting-selection
\* prompt and does no metric selection, assembly, chart, export or sampling;
\* those steps appear only while the selection is non-empty.
C14_EmptySelectionAwaits == [](EmptySelectionShowsPrompt) /\ [][EmptyingLeadsToPrompt]_vars

C14_Witness_PromptOnEmptySelection ==
    /\ Rendered("header:Compare Schools")
    /\ Selection = <<>>
    /\ session.has_sel
    /\ Rendered("info:Start by selecting schools")

\* the names of the dataset's rows that carry a selected name, in dataset order
SelectedInTableOrder ==
    SelectSeq([i \in 1..Len(session.df.rows) |-> session.df.rows[i]["school_name"]],
              LAMBDA name : name \in Range(Selection))

\* C15 -- The rows of the comparison table, of the export and of each chart
\* appear in dataset order, not in the order the schools were selected: of two
\* selected schools the one earlier in the dataset is earlier in the output.
C15_OutputInTableOrder ==
    Rendered("table") =>
        /\ [i \in 1..Len(view.display.rows) |-> view.display.rows[i][1]] = SelectedInTableOrder
        /\ [i \in 1..Len(view.export.rows) |-> view.export.rows[i][1]]
              = [i \in 1..Len(SelectedInTableOrder) |-> FieldText(SelectedInTableOrder[i])]
        /\ \A j \in 1..Len(view.charts) : view.charts[j].x = SelectedInTableOrder

\* the table is shown for two schools selected against the dataset's order
C15_Witness_SelectedInReverse ==
    /\ Rendered("table")
    /\ Len(view.charts) > 0
    /\ Len(Selection) >= 2
    /\ view.display.rows[1][1] = Selection[2]
    /\ view.display.rows[2][1] = Selection[1]

\* C16 -- The Metric Catalog is consistent with the loader's rename table: no
\* key of the catalog or of format_value's kind lists is a column the loader
\* renames away, so whenever the loader has returned (and cached) the table of
\* a file that carries a column for every catalog key, every catalog key is a
\* column of that table.
C16_CatalogSurvivesRename ==
    (cache /\ CatalogKeys \subseteq FileTable(disk.file).columns) =>
        /\ (CatalogKeys \cup FormatKindKeys) \cap DOMAIN column_mapping = {}
        /\ CatalogKeys \subseteq load_and_preprocess_data(FileTable(disk.file)).columns

====
